---- MODULE Spec2Model ----
(***************************************************************************)
(* Task lifecycle and notification core of the song-generation A2A agent:  *)
(* the A2AController facade, the TaskProcessor, the SongGenerationController*)
(* pipeline and the StreamingService, together with the TaskStore,         *)
(* TaskQueue and PushNotificationService they call.                        *)
(*                                                                         *)
(* Every `await` of the TypeScript source is a point where another handler *)
(* may run, so a handler that reads the Store, awaits and then writes is   *)
(* two steps here.  Timestamps are left out: a status is its state and its *)
(* message text.                                                           *)
(***************************************************************************)
EXTENDS Integers, Sequences, FiniteSets, TLC

\* ------------------------------------------------------------------ bounds
\* Task ids that exist; tasks created in the single-task and in the one-slot
\* specification; largest configured maxConcurrent; cancel requests and
\* controller status updates over a run; direct notifyTaskUpdate / notifyError
\* calls when the StreamingService is driven on its own; further response
\* streams next to the one of the request that created the task.
NumTasks == 3
SoloTasks == 1
PairTasks == 2
MaxConcurrentCfg == 2
MaxCancels == 1
MaxCtlUpdates == 2
MaxNotifies == 2
MaxExtraStreams == 1

\* ------------------------------------------------------- program constants
MaxRetries == 3

Tasks == 1..NumTasks

\* ------------------------------------------------------------- task states
SUBMITTED == "submitted"
WORKING == "working"
INPUT_REQUIRED == "input-required"
COMPLETED == "completed"
FAILED == "failed"
CANCELLED == "cancelled"

TaskStates == {SUBMITTED, WORKING, INPUT_REQUIRED, COMPLETED, FAILED, CANCELLED}

\* The status message is absent (NoMsg) or carries one text.
NoMsg == "<none>"

\* ------------------------------------------------------- request messages
\* A part is its type and the kind of its text: "absent", "blank" (empty or
\* whitespace only), "short" (1..9 characters after trim), "long" (>= 10).
Part(ty, tx) == [type |-> ty, text |-> tx]

MsgLong == <<Part("text", "long")>>
MsgShort == <<Part("text", "short")>>
MsgBlank == <<Part("text", "blank")>>
MsgData == <<Part("data", "long")>>
MsgBlankThenLong == <<Part("text", "blank"), Part("text", "long")>>

InputMessages == {MsgLong, MsgShort, MsgBlank, MsgData, MsgBlankThenLong}

NonEmptyText(tx) == tx \in {"short", "long"}

\* sendTask / sendTaskSubscribe: message.parts[0].text.trim() must be non-empty.
RequestAccepted(m) == Len(m) >= 1 /\ NonEmptyText(m[1].text)

\* TaskProcessor.validateTask: some text part with non-empty trimmed text.
\* A validateTask that lets every message through.
ValidateTaskAlwaysOk(m) == TRUE

ValidateTaskOk(m) == \E i \in 1..Len(m) : m[i].type = "text" /\ NonEmptyText(m[i].text)

ValidateTaskError == "Task must contain a non-empty text prompt"

\* handleTask: idea = text of the first part of type text, or "".
TextIdx(m) == {i \in 1..Len(m) : m[i].type = "text"}
Idea(m) ==
  IF TextIdx(m) = {} THEN "blank"
  ELSE LET i == CHOOSE k \in TextIdx(m) : \A j \in TextIdx(m) : k <= j
       IN IF m[i].text = "absent" THEN "blank" ELSE m[i].text

\* -------------------------------------------------------------- Task Store
Status(s, m) == [state |-> s, msg |-> m]

NewTask(m) ==
  [state |-> SUBMITTED, msg |-> NoMsg, history |-> <<>>, artifacts |-> <<>>,
   message |-> m]

Last(h) == h[Len(h)]

IsPrefix(a, b) == Len(a) <= Len(b) /\ \A i \in 1..Len(a) : a[i] = b[i]

IsFinal(s) == s \in {COMPLETED, CANCELLED, FAILED}

\* ------------------------------------------ TaskProcessor.updateTaskStatus
IsStateChanged(cur, state) == cur.state # state

IsProgressChanged(cur, message) ==
  /\ message # NoMsg
  /\ Len(cur.history) > 0
  /\ Last(cur.history).msg # NoMsg
  /\ Last(cur.history).msg # message

ShouldUpdate(cur, state, message) ==
  IsStateChanged(cur, state) \/ IsProgressChanged(cur, message)

\* An update that builds the new record from the status alone, without the
\* fields of the record read.
UpdatedTaskWithoutSpread(cur, state, message, arts) ==
  [state |-> state, msg |-> message,
   history |-> Append(cur.history, Status(state, message)),
   artifacts |-> arts, message |-> MsgBlank]

UpdatedTask(cur, state, message, arts) ==
  [cur EXCEPT !.state = state,
              !.msg = message,
              !.history = Append(@, Status(state, message)),
              !.artifacts = IF arts # <<>> THEN arts ELSE @]

\* ------------------------------------------------------ A2AController paths
CancelledTask(snap) == [snap EXCEPT !.state = CANCELLED]

CtlUpdatedTask(snap, state, message) ==
  [snap EXCEPT !.state = state,
               !.msg = message,
               !.history = Append(@, Status(snap.state, snap.msg))]

\* ------------------------------------------------ pipeline (handleTask)
Update(s, m, a) == [state |-> s, msg |-> m, arts |-> a]

ProgressTexts == <<"Generating audio... 10%", "Generating audio... 100%">>

TxtNoPrompt == "Please provide a prompt for the song"
TxtTooShort == "Please provide a more detailed description"
TxtStarting == "Starting song generation process..."
TxtMetadata == "Generating song metadata..."
TxtAudio == "Generating audio for title..."
TxtCancelled == "Task cancelled by user"
TxtMetaFailed == "Failed to generate song metadata"
TxtGenFailed == "Generation failed"
TxtDone == "Song has been generated successfully!"

\* The generator moved on without yielding (it awaits a backend).
NoUpdate == Update("<no-yield>", NoMsg, <<>>)

Out(u, pos, prog) == [upd |-> u, pos |-> pos, prog |-> prog]

\* A cancellation update after which the generator goes on.
CancelOutGoesOn(prog) == Out(Update(CANCELLED, TxtCancelled, <<>>), "run", prog)

CancelOut(prog) == Out(Update(CANCELLED, TxtCancelled, <<>>), "end", prog)
GenFailOut(prog) == Out(Update(FAILED, TxtGenFailed, <<>>), "end", prog)

\* A validatePrompt without the length check.
TooShortNever(idea) == FALSE

\* validatePrompt: a non-blank prompt of fewer than 10 characters after trim.
TooShort(idea) == idea = "short"

\* What the generator may yield next from position pos, with the cancellation
\* flag as read at its check points.  The backends' answers are the choice.
PipelineOutcomes(pos, prog, idea, cancelled) ==
  CASE pos = "start" ->
        IF idea = "blank"
          THEN {Out(Update(INPUT_REQUIRED, TxtNoPrompt, <<>>), "end", prog)}
        ELSE IF TooShort(idea)
          THEN {Out(Update(INPUT_REQUIRED, TxtTooShort, <<>>), "end", prog)}
        ELSE {Out(Update(WORKING, TxtStarting, <<>>), "g1", prog)}
    [] pos = "g1" -> {Out(Update(WORKING, TxtMetadata, <<>>), "g2", prog)}
    [] pos = "g2" ->
        {Out(Update(FAILED, TxtMetaFailed, <<>>), "end", prog)}
        \cup (IF cancelled THEN {CancelOut(prog)}
              ELSE {Out(Update(WORKING, TxtAudio, <<>>), "g3", prog)})
    [] pos = "g3" ->
        IF cancelled THEN {CancelOut(prog)}
        ELSE {Out(NoUpdate, "run", prog)}
    [] pos = "run" ->
        {GenFailOut(prog)}
        \cup {Out(Update(WORKING, ProgressTexts[p], <<>>), "run", p) :
                p \in (prog + 1)..Len(ProgressTexts)}
        \cup (IF cancelled THEN {CancelOut(prog)}
              ELSE {Out(Update(COMPLETED, TxtDone, <<0>>), "end", prog)})
    [] OTHER -> {}

\* ------------------------------------------------------------------- state
VARIABLES
  created,       \* task ids handed out so far (crypto.randomUUID, in order)
  store,         \* TaskStore: id -> record
  maxConcurrent, \* TaskQueue configuration (config.maxConcurrent || 1)
  queue,         \* TaskQueue FIFO of waiting task ids
  processing,    \* TaskQueue: ids holding a processing slot
  retries,       \* TaskQueue: retry passes already granted, per id
  finished,      \* TaskQueue: how the last pass of an id ended
  isCancelled,   \* TaskProcessor.isCancelled (one flag, one processor)
  proc,          \* per id, where processTask stands
  cancelReq,     \* A2AController.cancelTask calls between read and write
  cancelRet,     \* cancelTask: awaiting its write ("writing") or the value returned
  updReq,        \* A2AController.updateTaskStatus calls between read and write
  subReq,        \* sendTaskSubscribe calls between createTask and subscription
  connections,   \* StreamingService.connections: id -> set of channels
  connKeys,      \* ids that have an entry in StreamingService.connections
  sseLog,        \* what each response stream has been written
  webhooks,      \* PushNotificationService: ids with a registered webhook
  whLog,         \* what each task's webhook target has been sent
  resp,          \* each response: unanswered, an open stream, answered, ended
  nNotify,       \* direct StreamingService notifications made so far
  nCancels,      \* cancel requests made so far
  nUpdates       \* controller status updates made so far

vars == <<created, store, maxConcurrent, queue, processing, retries, finished,
          isCancelled, proc, cancelReq, cancelRet, updReq, subReq, connections,
          connKeys,
          sseLog, webhooks, whLog, resp, nNotify, nCancels, nUpdates>>

queueVars == <<queue, processing, retries, finished>>
notifyVars == <<connections, connKeys, sseLog, webhooks, whLog, resp, nNotify>>
reqVars == <<cancelReq, cancelRet, updReq, subReq, nCancels, nUpdates>>

\* The response stream of the request that created task t is channel t.
Channels == Tasks

IdleProc ==
  [pc |-> "idle", ctx |-> "none", pend |-> NoUpdate, snap |-> NewTask(MsgLong),
   task |-> MsgLong, gpos |-> "start", prog |-> 0, ylog |-> <<>>]

NoReq == [active |-> FALSE, snap |-> NewTask(MsgLong), state |-> SUBMITTED, msg |-> NoMsg]

Range(f) == {f[i] : i \in DOMAIN f}

Init ==
  /\ created = {}
  /\ store = [t \in Tasks |-> NewTask(MsgLong)]
  /\ maxConcurrent \in 1..MaxConcurrentCfg
  /\ queue = <<>>
  /\ processing = {}
  /\ retries = [t \in Tasks |-> 0]
  /\ finished = [t \in Tasks |-> "no"]
  /\ isCancelled = FALSE
  /\ proc = [t \in Tasks |-> IdleProc]
  /\ cancelReq = [t \in Tasks |-> NoReq]
  /\ cancelRet = [t \in Tasks |-> "none"]
  /\ updReq = [t \in Tasks |-> NoReq]
  /\ subReq = [t \in Tasks |-> "none"]
  /\ connections = [t \in Tasks |-> {}]
  /\ connKeys = {}
  /\ sseLog = [c \in Channels |-> <<>>]
  /\ webhooks = {}
  /\ whLog = [t \in Tasks |-> <<>>]
  /\ resp = [c \in Channels |-> "none"]
  /\ nNotify = 0
  /\ nCancels = 0
  /\ nUpdates = 0

\* ------------------------------------------------------ Notification Fan-out
StatusEvent(rec) ==
  [type |-> "status_update", state |-> rec.state, msg |-> rec.msg,
   final |-> IsFinal(rec.state), index |-> -1, lastChunk |-> FALSE, code |-> 0]

CompletionMarker(rec) == [StatusEvent(rec) EXCEPT !.type = "completion"]

\* A sendArtifacts that marks every artifact as the last chunk.
ArtifactEventAlwaysLast(rec, i) ==
  [type |-> "artifact", state |-> rec.state, msg |-> NoMsg, final |-> FALSE,
   index |-> rec.artifacts[i], lastChunk |-> TRUE, code |-> 0]

ArtifactEvent(rec, i) ==
  [type |-> "artifact", state |-> rec.state, msg |-> NoMsg, final |-> FALSE,
   index |-> rec.artifacts[i], lastChunk |-> (rec.artifacts[i] = Len(rec.artifacts) - 1),
   code |-> 0]

AckEvent ==
  [type |-> "status_update", state |-> SUBMITTED, msg |-> NoMsg, final |-> FALSE,
   index |-> -1, lastChunk |-> FALSE, code |-> 0]

\* A sendEventToClient that adds the completion marker to every status event.
StatusWritesMarkerAlways(rec) == <<StatusEvent(rec), CompletionMarker(rec)>>

\* StreamingService.sendEventToClient for a status event: the event, then the
\* completion marker when the event is final.
StatusWrites(rec) ==
  IF IsFinal(rec.state) THEN <<StatusEvent(rec), CompletionMarker(rec)>>
  ELSE <<StatusEvent(rec)>>

\* StreamingService.sendArtifacts: one artifact event per artifact.
ArtifactWrites(rec) == [i \in 1..Len(rec.artifacts) |-> ArtifactEvent(rec, i)]

\* A notifyTaskUpdate that sends the artifacts and no status event.
StreamWritesArtifactsOnly(rec) == ArtifactWrites(rec)

\* StreamingService.notifyTaskUpdate: what one channel of the task is written.
StreamWrites(rec) == StatusWrites(rec) \o ArtifactWrites(rec)

\* notifyError: the error event of a rejected request.
ErrorEvent(code, message) ==
  [type |-> "error", state |-> "<none>", msg |-> message, final |-> FALSE,
   index |-> -1, lastChunk |-> FALSE, code |-> code]

\* The channels StreamingService.connections holds for task id t.
Registered(t) == IF t \in connKeys THEN connections[t] ELSE {}

\* An unsubscribe that leaves the task's entry in the map.
UnsubscribedKeepsEntry(conn, keys, t, C) ==
  IF t \notin keys THEN [conn |-> conn, keys |-> keys]
  ELSE [conn |-> [conn EXCEPT ![t] = @ \ C], keys |-> keys]

\* StreamingService.unsubscribe on the map (conn, keys): the channels C leave
\* the set of t, and the entry of t is deleted when the set is empty.
Unsubscribed(conn, keys, t, C) ==
  IF t \notin keys THEN [conn |-> conn, keys |-> keys]
  ELSE [conn |-> [conn EXCEPT ![t] = @ \ C],
        keys |-> IF conn[t] \ C = {} THEN keys \ {t} ELSE keys]

\* A sendEventToClient whose write never throws.
FailingNever(C) == {}

\* The channels of C whose response.write throws.
Failing(C) == {c \in C : resp[c] \in {"dead", "broken"}}

\* One dispatch of the events ws to the channels of id: sendEventToClient
\* writes them to each channel, and unsubscribes the channel when the write
\* throws.
Deliver(id, ws) ==
  LET bad == Failing(Registered(id))
      u == Unsubscribed(connections, connKeys, id, bad)
  IN /\ sseLog' = [c \in Channels |->
                     IF c \in Registered(id) \ bad THEN sseLog[c] \o ws ELSE sseLog[c]]
     /\ connections' = u.conn
     /\ connKeys' = u.keys

\* A subscribe that registers the channel and sends it nothing.
SubscribeNoAck(t, c) ==
  /\ connections' = [connections EXCEPT ![t] = Registered(t) \cup {c}]
  /\ connKeys' = connKeys \cup {t}
  /\ sseLog' = sseLog
  /\ resp' = [resp EXCEPT ![c] = IF resp[c] = "none" THEN "stream" ELSE "broken"]

\* StreamingService.subscribe(t, c): the channel joins the set of t and is
\* written the acknowledgment; it leaves again when that write throws.
Subscribe(t, c) ==
  LET conn1 == [connections EXCEPT ![t] = Registered(t) \cup {c}]
      keys1 == connKeys \cup {t}
      u == Unsubscribed(conn1, keys1, t, Failing({c}))
  IN /\ connections' = u.conn
     /\ connKeys' = u.keys
     /\ sseLog' = IF Failing({c}) = {} THEN [sseLog EXCEPT ![c] = Append(@, AckEvent)]
                   ELSE sseLog
     /\ resp' = [resp EXCEPT ![c] = IF Failing({c}) = {} THEN "stream" ELSE "broken"]

\* A listener that sends a status_update for every state.
PushEventStatusOnly(rec) ==
  [type |-> "status_update", state |-> rec.state, msg |-> rec.msg,
   artifacts |-> rec.artifacts]

\* The controller's Store listener, webhook half.
PushEvent(rec) ==
  [type |-> IF IsFinal(rec.state) THEN "completion" ELSE "status_update",
   state |-> rec.state, msg |-> rec.msg, artifacts |-> rec.artifacts]

\* TaskStore.updateTask: replace the record, then run the listener.
StoreUpdate(t, rec) ==
  /\ store' = [store EXCEPT ![t] = rec]
  /\ whLog' = IF t \in webhooks THEN [whLog EXCEPT ![t] = Append(@, PushEvent(rec))]
              ELSE whLog
  /\ Deliver(t, StreamWrites(rec))
  /\ UNCHANGED <<webhooks, resp, nNotify>>

NoStoreUpdate == UNCHANGED <<store, notifyVars>>

\* ---------------------------------------------------------------- TaskQueue
Queued(t) == t \in Range(queue)

\* A slot accounting that admits one task too many.
SlotFreeOffByOne(pr) == Cardinality(pr) <= maxConcurrent

\* A task may start while fewer than maxConcurrent tasks hold a slot.
SlotFree(pr) == Cardinality(pr) < maxConcurrent

\* processTask up to its first await: validateTask, then updateTaskStatus reads
\* the Store (WORKING on success, FAILED from the catch block on a throw).
BeginPass(t, m, rec) ==
  [pc |-> "uts",
   ctx |-> IF ValidateTaskOk(m) THEN "first" ELSE "catch",
   pend |-> IF ValidateTaskOk(m) THEN Update(WORKING, NoMsg, <<>>)
            ELSE Update(FAILED, ValidateTaskError, <<>>),
   snap |-> rec, task |-> m, gpos |-> "start", prog |-> 0, ylog |-> <<>>]

\* The queue after task t gave its slot back: the head of the FIFO starts.
AfterRelease(t) ==
  LET pr == processing \ {t}
  IN IF queue # <<>> /\ SlotFree(pr)
       THEN [queue |-> Tail(queue), processing |-> pr \cup {Head(queue)},
             started |-> {Head(queue)}]
       ELSE [queue |-> queue, processing |-> pr, started |-> {}]

\* processTask of t returned or threw for good: how |-> "completed" | "failed".
EndPass(t, how) ==
  LET q == AfterRelease(t)
  IN /\ queue' = q.queue
     /\ processing' = q.processing
     /\ finished' = [finished EXCEPT ![t] = how]
     /\ retries' = retries
     /\ proc' = [u \in Tasks |->
                   IF u \in q.started THEN BeginPass(u, proc[u].task, store'[u])
                   ELSE IF u = t
                     THEN [IdleProc EXCEPT !.pc = "done", !.task = proc[t].task,
                                           !.ylog = proc[t].ylog]
                   ELSE proc[u]]

\* processTask of t threw: retried while no update was yielded and retries remain.
PassRejected(t) ==
  IF proc[t].ylog = <<>> /\ retries[t] < MaxRetries
    THEN /\ retries' = [retries EXCEPT ![t] = @ + 1]
         /\ proc' = [proc EXCEPT ![t] = [IdleProc EXCEPT !.pc = "retry", !.task = proc[t].task]]
         /\ UNCHANGED <<queue, processing, finished>>
    ELSE EndPass(t, "failed")

\* TaskQueue.enqueueTask.
Enqueue(t, m) ==
  IF Queued(t) \/ t \in processing
    THEN UNCHANGED <<queueVars, proc>>
  ELSE IF SlotFree(processing)
    THEN /\ processing' = processing \cup {t}
         /\ proc' = [proc EXCEPT ![t] = BeginPass(t, m, store'[t])]
         /\ retries' = [retries EXCEPT ![t] = 0]
         /\ finished' = [finished EXCEPT ![t] = "no"]
         /\ UNCHANGED queue
  ELSE /\ queue' = Append(queue, t)
       /\ proc' = [proc EXCEPT ![t] = [IdleProc EXCEPT !.task = m]]
       /\ retries' = [retries EXCEPT ![t] = 0]
       /\ finished' = [finished EXCEPT ![t] = "no"]
       /\ UNCHANGED processing

\* ------------------------------------------------------------ A2AController
Vias == {"direct", "send", "sse", "webhook", "webhook_nourl"}

\* createTask, called directly ("direct") or by sendTask ("send") or by
\* sendTaskSubscribe ("sse", "webhook") once the request passed validation:
\* the Store gets the SUBMITTED record and the task is enqueued.  cap is the
\* number of tasks the client creates in the run.
CreateTask(m, via, cap) ==
  LET t == Cardinality(created) + 1
  IN /\ Cardinality(created) < cap
     /\ cap <= NumTasks
     /\ via # "direct" => RequestAccepted(m)
     /\ created' = created \cup {t}
     /\ store' = [store EXCEPT ![t] = NewTask(m)]
     /\ Enqueue(t, m)
     /\ subReq' = [subReq EXCEPT ![t] = IF via \in {"direct", "send"} THEN "none" ELSE via]
     /\ UNCHANGED <<maxConcurrent, isCancelled, cancelReq, cancelRet, updReq,
                    notifyVars, nCancels, nUpdates>>

\* sendTaskSubscribe after createTask returned: in webhook mode with a url,
\* register the webhook and answer with the task id; in any other case
\* subscribe the response stream and enqueue the task once more.
SubscribeFinish(t) ==
  /\ subReq[t] # "none"
  /\ subReq' = [subReq EXCEPT ![t] = "none"]
  /\ UNCHANGED <<created, store, maxConcurrent, isCancelled, cancelReq, cancelRet,
                 updReq, nCancels, nUpdates, whLog, nNotify>>
  /\ IF subReq[t] = "webhook"
       THEN /\ webhooks' = webhooks \cup {t}
            /\ resp' = [resp EXCEPT ![t] = "json"]
            /\ UNCHANGED <<connections, connKeys, sseLog, queueVars, proc>>
       ELSE /\ Subscribe(t, t)
            /\ Enqueue(t, store[t].message)
            /\ UNCHANGED webhooks

\* cancelTask up to its first await: the Store read.
CancelBegin(t) ==
  /\ t \in created
  /\ nCancels < MaxCancels
  /\ ~cancelReq[t].active
  /\ cancelRet[t] # "writing"
  /\ cancelReq' = [cancelReq EXCEPT ![t] = [NoReq EXCEPT !.active = TRUE, !.snap = store[t]]]
  /\ cancelRet' = [cancelRet EXCEPT ![t] = "none"]
  /\ nCancels' = nCancels + 1
  /\ UNCHANGED <<created, store, maxConcurrent, queueVars, isCancelled, proc,
                 updReq, subReq, notifyVars, nUpdates>>

\* cancelTask for an id the Store does not know: getTask finds nothing and the
\* call returns false.
CancelUnknown(t) ==
  /\ t \notin created
  /\ nCancels < MaxCancels
  /\ cancelRet' = [cancelRet EXCEPT ![t] = "false"]
  /\ nCancels' = nCancels + 1
  /\ UNCHANGED <<created, store, maxConcurrent, queueVars, isCancelled, proc,
                 cancelReq, updReq, subReq, notifyVars, nUpdates>>

\* cancelTask after the read: TaskQueue.cancelTask, then the CANCELLED write
\* when the queue accepted, which the call awaits; false at once otherwise.
CancelCommit(t) ==
  /\ cancelReq[t].active
  /\ cancelReq' = [cancelReq EXCEPT ![t] = NoReq]
  /\ UNCHANGED <<created, maxConcurrent, proc, updReq, subReq, nCancels, nUpdates,
                 retries, processing>>
  /\ IF Queued(t)
       THEN /\ queue' = SelectSeq(queue, LAMBDA u : u # t)
            /\ finished' = [finished EXCEPT ![t] = "cancelled"]
            /\ UNCHANGED isCancelled
            /\ StoreUpdate(t, CancelledTask(cancelReq[t].snap))
            /\ cancelRet' = [cancelRet EXCEPT ![t] = "writing"]
     ELSE IF t \in processing
       THEN /\ isCancelled' = TRUE
            /\ UNCHANGED <<queue, finished>>
            /\ StoreUpdate(t, CancelledTask(cancelReq[t].snap))
            /\ cancelRet' = [cancelRet EXCEPT ![t] = "writing"]
     ELSE /\ UNCHANGED <<queue, finished, isCancelled>>
          /\ NoStoreUpdate
          /\ cancelRet' = [cancelRet EXCEPT ![t] = "false"]

\* cancelTask after its Store write resolved: the call returns true.
CancelReturn(t) ==
  /\ cancelRet[t] = "writing"
  /\ cancelRet' = [cancelRet EXCEPT ![t] = "true"]
  /\ UNCHANGED <<created, store, maxConcurrent, queueVars, isCancelled, proc,
                 cancelReq, updReq, subReq, notifyVars, nCancels, nUpdates>>

CtlStates == {WORKING, COMPLETED}
CtlMsgs == {NoMsg, TxtAudio, "note"}

\* updateTaskStatus of the controller up to its first await: the Store read.
UpdBegin(t, s, m) ==
  /\ t \in created
  /\ nUpdates < MaxCtlUpdates
  /\ ~updReq[t].active
  /\ updReq' = [updReq EXCEPT ![t] = [active |-> TRUE, snap |-> store[t], state |-> s, msg |-> m]]
  /\ nUpdates' = nUpdates + 1
  /\ UNCHANGED <<created, store, maxConcurrent, queueVars, isCancelled, proc,
                 cancelReq, cancelRet, subReq, notifyVars, nCancels>>

\* updateTaskStatus of the controller after the read: the Store write.
UpdCommit(t) ==
  /\ updReq[t].active
  /\ updReq' = [updReq EXCEPT ![t] = NoReq]
  /\ StoreUpdate(t, CtlUpdatedTask(updReq[t].snap, updReq[t].state, updReq[t].msg))
  /\ UNCHANGED <<created, maxConcurrent, queueVars, isCancelled, proc, cancelReq,
                 cancelRet, subReq, nCancels, nUpdates>>

\* ------------------------------------------------------------ TaskProcessor
\* processTask waits for the generator: no update is pending, no record is held.
Awaiting(p) == [p EXCEPT !.pc = "gen", !.ctx = "none", !.pend = NoUpdate, !.snap = NewTask(MsgLong)]

\* A processTask loop that breaks after the first update it relays.
LoopEndsAtFirstUpdate(p, gpos) == TRUE

\* A processTask loop without the break: it only ends with the generator.
LoopEndsWithGeneratorOnly(p, gpos) == gpos = "end" /\ p.state \notin {COMPLETED, FAILED}

\* processTask's for-await loop ends on a COMPLETED or FAILED update, or when
\* the generator has nothing more to yield.
LoopEnds(p, gpos) == p.state \in {COMPLETED, FAILED} \/ gpos = "end"

\* updateTaskStatus after getTask resolved: the dedup check on the record read,
\* the Store write, and what processTask does next.
ProcessorWrite(t) ==
  LET cur == proc[t].snap
      p == proc[t].pend
  IN /\ proc[t].pc = "uts"
     /\ IF ShouldUpdate(cur, p.state, p.msg)
          THEN StoreUpdate(t, UpdatedTask(cur, p.state, p.msg, p.arts))
          ELSE NoStoreUpdate
     /\ CASE proc[t].ctx = "first" ->
               /\ proc' = [proc EXCEPT ![t] = Awaiting(@)]
               /\ UNCHANGED queueVars
          [] proc[t].ctx = "loop" ->
               IF LoopEnds(p, proc[t].gpos)
                 THEN EndPass(t, "completed")
                 ELSE /\ proc' = [proc EXCEPT ![t] = Awaiting(@)]
                      /\ UNCHANGED queueVars
          [] OTHER -> PassRejected(t)
     /\ UNCHANGED <<created, maxConcurrent, isCancelled, reqVars>>

\* The for-await loop asks the generator for its next update; on a yield the
\* processor calls updateTaskStatus, which reads the Store.
GenNext(t) ==
  /\ proc[t].pc = "gen"
  /\ \E o \in PipelineOutcomes(proc[t].gpos, proc[t].prog, Idea(proc[t].task), isCancelled) :
       proc' = [proc EXCEPT ![t] =
                  IF o.upd = NoUpdate
                    THEN [@ EXCEPT !.gpos = o.pos, !.prog = o.prog]
                    ELSE [@ EXCEPT !.pc = "uts", !.ctx = "loop", !.pend = o.upd,
                                   !.snap = store[t], !.gpos = o.pos,
                                   !.prog = o.prog,
                                   !.ylog = Append(@, Status(o.upd.state, o.upd.msg))]]
  /\ UNCHANGED <<created, store, maxConcurrent, queueVars, isCancelled, reqVars,
                 notifyVars>>

\* TaskQueue: the retry delay of a failed pass has elapsed.
RetryFire(t) ==
  /\ proc[t].pc = "retry"
  /\ proc' = [proc EXCEPT ![t] = BeginPass(t, proc[t].task, store[t])]
  /\ UNCHANGED <<created, store, maxConcurrent, queueVars, isCancelled, reqVars,
                 notifyVars>>

Next ==
  \/ \E m \in InputMessages, via \in Vias : CreateTask(m, via, SoloTasks)
  \/ \E t \in Tasks : SubscribeFinish(t)
  \/ \E t \in Tasks : CancelBegin(t)
  \/ \E t \in Tasks : CancelUnknown(t)
  \/ \E t \in Tasks : CancelCommit(t)
  \/ \E t \in Tasks : CancelReturn(t)
  \/ \E t \in Tasks : ProcessorWrite(t)
  \/ \E t \in Tasks : GenNext(t)
  \/ \E t \in Tasks : RetryFire(t)

\* One task and its clients: any request message, any way of creating the
\* task, the stream or webhook subscription, a cancel request.
Spec == Init /\ [][Next]_vars

\* One task whose status is also written through the controller's
\* updateTaskStatus while the processor works on it.
NextCtl ==
  \/ \E m \in InputMessages : CreateTask(m, "direct", SoloTasks)
  \/ \E t \in Tasks, s \in CtlStates, m \in CtlMsgs : UpdBegin(t, s, m)
  \/ \E t \in Tasks : UpdCommit(t)
  \/ \E t \in Tasks : ProcessorWrite(t)
  \/ \E t \in Tasks : GenNext(t)
  \/ \E t \in Tasks : RetryFire(t)

SpecCtl == Init /\ [][NextCtl]_vars

\* Several tasks competing for the queue's slots: clients create tasks and
\* cancel them; nobody calls the controller's updateTaskStatus.
QueueMessages == {MsgLong, MsgShort, MsgData}

NextQueue ==
  \/ \E m \in QueueMessages : CreateTask(m, "send", NumTasks)
  \/ \E t \in Tasks : CancelBegin(t)
  \/ \E t \in Tasks : CancelCommit(t)
  \/ \E t \in Tasks : CancelReturn(t)
  \/ \E t \in Tasks : ProcessorWrite(t)
  \/ \E t \in Tasks : GenNext(t)
  \/ \E t \in Tasks : RetryFire(t)

SpecQueue == Init /\ [][NextQueue]_vars

\* Two subscribing clients behind a queue of one slot: the second task waits
\* while the first is processed; either may be cancelled.
InitSerial == Init /\ maxConcurrent = 1

SerialVias == {"send", "sse", "webhook"}

NextSerial ==
  \/ \E m \in QueueMessages, via \in SerialVias : CreateTask(m, via, PairTasks)
  \/ \E t \in Tasks : SubscribeFinish(t)
  \/ \E t \in Tasks : CancelBegin(t)
  \/ \E t \in Tasks : CancelCommit(t)
  \/ \E t \in Tasks : CancelReturn(t)
  \/ \E t \in Tasks : ProcessorWrite(t)
  \/ \E t \in Tasks : GenNext(t)
  \/ \E t \in Tasks : RetryFire(t)

SpecSerial == InitSerial /\ [][NextSerial]_vars

\* ------------------------------------------------- further response streams
\* The response streams of requests that create no task.
ExtraChannels == Channels \ (1..SoloTasks)

\* The next response stream to arrive: it has not been answered or subscribed.
FreshChannel(c) ==
  /\ c \in ExtraChannels
  /\ resp[c] \in {"none", "dead"}
  /\ \A d \in ExtraChannels : d < c => resp[d] \notin {"none", "dead"}

\* StreamingService.subscribe called with a further response stream.
SubscribeExtra(t, c) ==
  /\ FreshChannel(c)
  /\ Subscribe(t, c)
  /\ UNCHANGED <<created, store, maxConcurrent, queueVars, isCancelled, proc,
                 reqVars, webhooks, whLog, nNotify>>

\* Writes to the response stream start to throw.
Break(c) ==
  /\ \/ resp[c] = "stream" /\ resp' = [resp EXCEPT ![c] = "broken"]
     \/ resp[c] = "none" /\ FreshChannel(c) /\ resp' = [resp EXCEPT ![c] = "dead"]
  /\ UNCHANGED <<created, store, maxConcurrent, queueVars, isCancelled, proc,
                 reqVars, connections, connKeys, sseLog, webhooks, whLog, nNotify>>

\* The client disconnects: the 'close' handler that subscribe installed
\* unsubscribes the response from its task.
Close(c) ==
  /\ resp[c] \in {"stream", "broken"}
  /\ resp' = [resp EXCEPT ![c] = "closed"]
  /\ LET owners == {t \in Tasks : c \in Registered(t)}
     IN IF owners = {} THEN UNCHANGED <<connections, connKeys>>
        ELSE LET t == CHOOSE o \in owners : TRUE
                 u == Unsubscribed(connections, connKeys, t, {c})
             IN connections' = u.conn /\ connKeys' = u.keys
  /\ UNCHANGED <<created, store, maxConcurrent, queueVars, isCancelled, proc,
                 reqVars, sseLog, webhooks, whLog, nNotify>>

\* JSON-RPC error codes of sendTaskSubscribe and their messages.
ErrorCodes == {-32600, -32602, -32000}

ErrorMessage(code) ==
  CASE code = -32600 -> "Invalid JSON-RPC 2.0 request"
    [] code = -32602 -> "Task must contain a non-empty message text"
    [] OTHER -> "Internal server error"

\* params.id of a request that names no task.
UnknownId == 0

\* sendTaskSubscribe rejects the request of a streaming client whose
\* params.id is id: the SSE headers are written, notifyError is called for
\* id (or "unknown"), the response is ended.
RejectSubscribe(c, id, code) ==
  /\ FreshChannel(c)
  /\ resp[c] = "none"
  /\ IF id \in Tasks THEN Deliver(id, <<ErrorEvent(code, ErrorMessage(code))>>)
     ELSE UNCHANGED <<connections, connKeys, sseLog>>
  /\ resp' = [resp EXCEPT ![c] = "ended"]
  /\ UNCHANGED <<created, store, maxConcurrent, queueVars, isCancelled, proc,
                 reqVars, webhooks, whLog, nNotify>>

StreamMessages == {MsgLong, MsgData}
StreamVias == {"sse", "webhook"}
StreamChannels == {c \in Channels : c <= SoloTasks + MaxExtraStreams}

\* One task with its subscriber, further subscribers of the same task, streams
\* that break or are closed by their client, and rejected requests.
NextStream ==
  \/ \E m \in StreamMessages, via \in StreamVias : CreateTask(m, via, SoloTasks)
  \/ \E t \in Tasks : SubscribeFinish(t)
  \/ \E t \in created, c \in StreamChannels : SubscribeExtra(t, c)
  \/ \E c \in StreamChannels : Break(c)
  \/ \E c \in StreamChannels : Close(c)
  \/ \E c \in StreamChannels, id \in created \cup {UnknownId}, code \in ErrorCodes :
       RejectSubscribe(c, id, code)
  \/ \E t \in Tasks : ProcessorWrite(t)
  \/ \E t \in Tasks : GenNext(t)
  \/ \E t \in Tasks : RetryFire(t)

SpecStream == Init /\ [][NextStream]_vars

\* ------------------------------------------- the StreamingService on its own
\* Task ids the service is called with; the artifact batches and the records
\* handed to notifyTaskUpdate.  An artifact is its index, its place in the
\* batch counted from 0.
FanoutIds == 1..PairTasks

Batches == {<<>>, <<0>>, <<0, 1>>, <<0, 1, 2>>}

FanoutStates == {WORKING, INPUT_REQUIRED, COMPLETED, FAILED, CANCELLED}

FanoutRecs ==
  {[state |-> st, msg |-> "note", history |-> <<>>, artifacts |-> b, message |-> MsgLong] :
     st \in FanoutStates, b \in Batches}

\* The record rec of task t is stored and StreamingService.notifyTaskUpdate is
\* called with it.
NotifyTaskUpdate(t, rec) ==
  /\ nNotify < MaxNotifies
  /\ nNotify' = nNotify + 1
  /\ store' = [store EXCEPT ![t] = rec]
  /\ Deliver(t, StreamWrites(rec))
  /\ UNCHANGED <<created, maxConcurrent, queueVars, isCancelled, proc,
                 reqVars, webhooks, whLog, resp>>

\* StreamingService.notifyError called for the id.
NotifyError(id, code) ==
  /\ nNotify < MaxNotifies
  /\ nNotify' = nNotify + 1
  /\ Deliver(id, <<ErrorEvent(code, ErrorMessage(code))>>)
  /\ UNCHANGED <<created, store, maxConcurrent, queueVars, isCancelled, proc,
                 reqVars, webhooks, whLog, resp>>

\* Any sequence of calls of the service's public methods, with streams that
\* break and clients that disconnect in between.
NextFanout ==
  \/ \E t \in FanoutIds, c \in Channels : SubscribeExtra(t, c)
  \/ \E c \in Channels : Break(c)
  \/ \E c \in Channels : Close(c)
  \/ \E t \in FanoutIds, rec \in FanoutRecs : NotifyTaskUpdate(t, rec)
  \/ \E t \in FanoutIds, code \in ErrorCodes : NotifyError(t, code)

SpecFanout == Init /\ [][NextFanout]_vars

\* ================================================================== claims
StatusOf(rec) == Status(rec.state, rec.msg)

\* The processor finishes an updateTaskStatus call for t in this step.
RelayStep(t) == proc[t].pc = "uts" /\ proc'[t] # proc[t]

\* C1: once a task's Store status is COMPLETED, FAILED or CANCELLED, no later
\* update attempt changes its record (status, history, artifacts).
C1_TerminalIsFrozen ==
  [][\A t \in created : IsFinal(store[t].state) => store'[t] = store[t]]_vars

\* C2: after any successful Store update of a task, the task's status equals
\* the last element of its history.
C2_StatusIsHistoryTail ==
  [][\A t \in created :
       store'[t] # store[t] =>
         /\ Len(store'[t].history) > 0
         /\ Last(store'[t].history) = StatusOf(store'[t])]_vars

\* C3: for any two consecutive Store records of a task, the earlier history is
\* a prefix of the later one, under every interleaving of the update paths.
C3_HistoryAppendOnly ==
  [][\A t \in created : IsPrefix(store[t].history, store'[t].history)]_vars

ValidTransition(a, b) ==
  \/ a = SUBMITTED /\ b \in {WORKING, CANCELLED}
  \/ a = WORKING /\ b \in {WORKING, INPUT_REQUIRED, COMPLETED, FAILED, CANCELLED}

\* C4: every change of a task's Store record goes from its state to a state the
\* valid-transition relation allows.
C4_OnlyValidTransitions ==
  [][\A t \in created :
       store'[t] # store[t] => ValidTransition(store[t].state, store'[t].state)]_vars

\* C7: an update yielded by the pipeline that differs in state or message text
\* from the status the processor read becomes a Store update with a new
\* history entry.
C7_EveryYieldIsStored ==
  [][\A t \in created :
       (RelayStep(t) /\ proc[t].ctx = "loop"
          /\ Status(proc[t].pend.state, proc[t].pend.msg) # StatusOf(proc[t].snap))
       => /\ StatusOf(store'[t]) = Status(proc[t].pend.state, proc[t].pend.msg)
          /\ store'[t].history = Append(proc[t].snap.history, StatusOf(store'[t]))]_vars

\* C8: relaying an update identical in state and message text to the status the
\* processor read writes nothing to the Store and sends no event.
C8_IdenticalRelayIsSilent ==
  [][\A t \in created :
       (RelayStep(t)
          /\ Status(proc[t].pend.state, proc[t].pend.msg) = StatusOf(proc[t].snap))
       => UNCHANGED <<store, sseLog, whLog>>]_vars

\* The pipeline ran Scenario C on t: it reported 10%, then 100%, then COMPLETED.
FullRun ==
  <<Status(WORKING, TxtStarting), Status(WORKING, TxtMetadata), Status(WORKING, TxtAudio),
    Status(WORKING, ProgressTexts[1]), Status(WORKING, ProgressTexts[2]),
    Status(COMPLETED, TxtDone)>>

\* The channel was subscribed before the processor's first Store write: after
\* the acknowledgment it was sent the message-less WORKING status.
SawFirstWrite(log) ==
  /\ Len(log) >= 2
  /\ log[1] = AckEvent
  /\ log[2].type = "status_update"
  /\ log[2].state = WORKING
  /\ log[2].msg = NoMsg

ScenarioEvent(e) ==
  \/ e.type \in {"artifact", "completion"}
  \/ e.state = COMPLETED
  \/ e.msg \in Range(ProgressTexts)

DoneRec == [state |-> COMPLETED, msg |-> TxtDone, artifacts |-> <<0>>]

ScenarioCLog ==
  <<[StatusEvent(DoneRec) EXCEPT !.state = WORKING, !.msg = ProgressTexts[1], !.final = FALSE],
    [StatusEvent(DoneRec) EXCEPT !.state = WORKING, !.msg = ProgressTexts[2], !.final = FALSE],
    StatusEvent(DoneRec),
    ArtifactEvent(DoneRec, 1),
    CompletionMarker(DoneRec)>>

\* C9: a stream channel subscribed to a task whose pipeline reports 10%, 100%
\* and then COMPLETED with one artifact receives, in this order, the status
\* events for 10%, 100% and COMPLETED, the artifact event and last the
\* completion event.
C9_ScenarioCOrder ==
  \A t \in created :
    (proc[t].pc = "done" /\ proc[t].ylog = FullRun /\ nCancels = 0
       /\ SawFirstWrite(sseLog[t]))
    => SelectSeq(sseLog[t], ScenarioEvent) = ScenarioCLog

HasCompletion(log) == \E i \in 1..Len(log) : log[i].type = "completion"

\* C10: once the processing of a task created by tasks/sendSubscribe has
\* ended, however it ended, the subscriber that followed the task from its
\* first update on has received a completion event.
C10_TerminalNotification ==
  \A t \in created :
    (proc[t].pc = "done" /\ subReq[t] = "none")
    => /\ (t \in connKeys /\ SawFirstWrite(sseLog[t])) => HasCompletion(sseLog[t])
       /\ (t \in webhooks /\ Len(whLog[t]) > 0 /\ whLog[t][1].state = WORKING
             /\ whLog[t][1].msg = NoMsg) => HasCompletion(whLog[t])

\* C5: at every instant at most maxConcurrent tasks are in processing.
C5_ProcessingBounded == Cardinality(processing) <= maxConcurrent

\* Every slot is taken, by more than one task, and a further task waits.
C5_SlotsFullAndWaiting ==
  /\ maxConcurrent > 1
  /\ Cardinality(processing) = maxConcurrent
  /\ queue # <<>>

Started(t) == proc[t].pc # "idle"

\* C6 as stated: with maxConcurrent = 1 a later task has no history entry
\* unless every earlier task is COMPLETED, FAILED or CANCELLED.
C6_SecondWaitsForTerminal ==
  maxConcurrent = 1 =>
    \A a \in created, b \in created :
      (a < b /\ Len(store[b].history) > 0) => IsFinal(store[a].state)

\* C6: with maxConcurrent = 1 a later task is not started, and has no history
\* entry, before the processing of every earlier task has ended, which leaves
\* the earlier task COMPLETED, FAILED, CANCELLED or INPUT_REQUIRED; waiting
\* tasks are started in the order they were enqueued.
C6_SecondWaitsForEndOfFirst ==
  /\ \A i \in 1..Len(queue), j \in 1..Len(queue) : i < j => queue[i] < queue[j]
  /\ \A a \in created, b \in created :
       (a < b /\ Started(b)) => ~Queued(a)
  /\ maxConcurrent = 1 =>
       \A a \in created, b \in created :
         (a < b /\ (Started(b) \/ Len(store[b].history) > 0))
         => /\ finished[a] # "no"
            /\ store[a].state \in {COMPLETED, FAILED, CANCELLED, INPUT_REQUIRED}

\* The second of three tasks runs after the first asked for input, the third
\* still waits.
C6_SecondRunsAfterInputRequired ==
  /\ maxConcurrent = 1
  /\ store[1].state = INPUT_REQUIRED
  /\ 2 \in processing
  /\ Len(store[2].history) > 0
  /\ queue = <<3>>

\* Channel t is registered for task t; a webhook is registered for task t.
Streaming(t) == t \in connKeys /\ t \in connections[t]
Hooked(t) == t \in webhooks

\* What a log gained in the step; an event carrying the status of a record.
Gained(old, new) == SubSeq(new, Len(old) + 1, Len(new))
Carries(e, rec) == e.state = rec.state /\ e.msg = rec.msg

\* C11: a subscriber of a task is sent events only in the step of a Store
\* update of that task, and every Store update that changes the record sends
\* it the status of the record just stored, once per status event type;
\* nothing already sent is changed.  The status events a subscriber has seen
\* are therefore in the order of the Store updates.
C11_EventsFollowStoreOrder ==
  [][\A t \in created :
       /\ (Streaming(t) /\ (sseLog'[t] # sseLog[t] \/ store'[t] # store[t])) =>
            /\ IsPrefix(sseLog[t], sseLog'[t])
            /\ LET ev == SelectSeq(Gained(sseLog[t], sseLog'[t]),
                                   LAMBDA e : e.type = "status_update")
               IN Len(ev) = 1 /\ Carries(ev[1], store'[t])
       /\ (Hooked(t) /\ (whLog'[t] # whLog[t] \/ store'[t] # store[t])) =>
            /\ IsPrefix(whLog[t], whLog'[t])
            /\ LET ev == Gained(whLog[t], whLog'[t])
               IN Len(ev) = 1 /\ Carries(ev[1], store'[t])]_vars

\* A stream subscriber was sent the acknowledgment and then the status events
\* of a cancelled task that went on to complete.
C11_StreamSawSeveralUpdates ==
  \E t \in created :
    /\ Streaming(t)
    /\ Len(SelectSeq(sseLog[t], LAMBDA e : e.type = "status_update")) >= 4
    /\ store[t].state = COMPLETED

Completions(log) == SelectSeq(log, LAMBDA e : e.type = "completion")

\* Every pass of processTask on t threw before the pipeline yielded anything,
\* and the queue has given t up.
FailedBeforeAnyYield(t) ==
  /\ proc[t].pc = "done"
  /\ finished[t] = "failed"
  /\ proc[t].ylog = <<>>

\* C12: a task created in webhook mode whose every pass fails before any
\* update is yielded has been retried MaxRetries times, and its webhook target
\* has been sent exactly one completion event, with state FAILED.
C12_ScenarioD ==
  \A t \in created :
    (Hooked(t) /\ nCancels = 0 /\ FailedBeforeAnyYield(t))
    => /\ retries[t] = MaxRetries
       /\ Len(Completions(whLog[t])) = 1
       /\ Completions(whLog[t])[1].state = FAILED

\* The processor relays to the Store a FAILED update the pipeline yielded.
RelaysPipelineFailure(t) ==
  RelayStep(t) /\ proc[t].ctx = "loop" /\ proc[t].pend.state = FAILED

\* C13: when the pipeline fails after it has yielded an update, the task is
\* FAILED at once and its processing is over for good: no retry is scheduled
\* and the pipeline is not started for the task again; a retry is granted only
\* to a pass that failed before any update was yielded, and at most MaxRetries
\* times.
C13_NoRetryAfterProgress ==
  [][\A t \in created :
       /\ RelaysPipelineFailure(t) =>
            /\ store'[t].state = FAILED
            /\ proc'[t].pc = "done"
            /\ retries'[t] = retries[t]
       /\ (proc[t].pc = "done" /\ proc[t].ylog # <<>>
             /\ Last(proc[t].ylog).state = FAILED) => proc'[t].pc = "done"
       /\ retries'[t] > retries[t] =>
            /\ proc[t].ylog = <<>>
            /\ retries[t] < MaxRetries]_vars

\* C14: every Store update of a task with a webhook sends the webhook exactly
\* one event: a status_update with the new status when the new state is
\* SUBMITTED, WORKING or INPUT_REQUIRED, a completion with the new status and
\* all the record's artifacts when it is COMPLETED, FAILED or CANCELLED.
C14_OnePushEventPerUpdate ==
  [][\A t \in created :
       (Hooked(t) /\ (whLog'[t] # whLog[t] \/ store'[t] # store[t])) =>
         LET ev == Gained(whLog[t], whLog'[t])
         IN /\ IsPrefix(whLog[t], whLog'[t])
            /\ Len(ev) = 1
            /\ Carries(ev[1], store'[t])
            /\ ev[1].artifacts = store'[t].artifacts
            /\ ev[1].type = IF store'[t].state \in {COMPLETED, FAILED, CANCELLED}
                              THEN "completion" ELSE "status_update"]_vars

\* A webhook was sent a status_update and later the completion of a COMPLETED
\* task with its artifact.
C14_WebhookSawBothKinds ==
  \E t \in created :
    /\ Hooked(t)
    /\ Len(whLog[t]) >= 2
    /\ whLog[t][1].type = "status_update"
    /\ Last(whLog[t]).type = "completion"
    /\ Last(whLog[t]).state = COMPLETED
    /\ Last(whLog[t]).artifacts = <<0>>

\* The queue dropped t on a cancel before t was ever started.
CancelledUnstarted(t) == finished[t] = "cancelled" /\ store[t].history = <<>>

\* C15: a cancel of a task that waits in the queue and was never started
\* makes it CANCELLED at once, and from then on the task stays CANCELLED, is
\* never started and gets no history entry (so no WORKING entry).
C15_QueuedCancelIsFinal ==
  [][\A t \in created :
       /\ (finished[t] # "cancelled" /\ finished'[t] = "cancelled"
             /\ store[t].history = <<>>)
          => store'[t].state = CANCELLED /\ store'[t].history = <<>>
       /\ CancelledUnstarted(t)
          => /\ finished'[t] = "cancelled"
             /\ proc'[t].pc = "idle"
             /\ store'[t].state = CANCELLED
             /\ store'[t].history = <<>>]_vars

\* C16: cancelTask returns true only after the queue accepted the cancel (the
\* task was queued or processing), and when it returns true the Store record
\* of the task is CANCELLED.
C16_TrueMeansCancelled ==
  [][\A t \in Tasks :
       /\ (cancelRet[t] # "writing" /\ cancelRet'[t] = "writing")
          => (Queued(t) \/ t \in processing)
       /\ cancelRet'[t] = "true"
          => /\ cancelRet[t] \in {"writing", "true"}
             /\ cancelRet[t] = "writing" => store[t].state = CANCELLED]_vars

\* cancelTask decides in this step: for a known task after its Store read, for
\* an unknown id at once.
CancelDecides(t) ==
  \/ cancelReq[t].active /\ ~cancelReq'[t].active
  \/ t \notin created /\ cancelRet'[t] # cancelRet[t]

NoCancelEffect == UNCHANGED <<store, queue, processing, isCancelled, sseLog, whLog>>

\* C17: a cancelTask call for an unknown id, or for a task whose Store state
\* was COMPLETED, FAILED or CANCELLED when the call read it and still is,
\* returns false and changes neither the Store, the queue, the cancellation
\* flag nor what subscribers have been sent.
C17_RejectedCancelHasNoEffect ==
  [][\A t \in Tasks :
       (CancelDecides(t)
          /\ (t \in created =>
                IsFinal(cancelReq[t].snap.state) /\ IsFinal(store[t].state)))
       => cancelRet'[t] = "false" /\ NoCancelEffect]_vars

\* The generator of t is resumed in this step.
GeneratorStep(t) == proc[t].pc = "gen" /\ proc'[t] # proc[t]

\* C18: a generator resumed while the cancellation flag is set does not yield
\* COMPLETED: at the check before audio generation it yields CANCELLED, at the
\* checks after metadata and after audio generation it yields CANCELLED unless
\* the backend failed or reported progress first.  A CANCELLED update is the
\* generator's last: it has ended, and CANCELLED is yielded once per pass.
C18_CancelledEndsPipeline ==
  [][\A t \in created :
       GeneratorStep(t) =>
         /\ (isCancelled /\ proc[t].gpos \in {"g2", "g3", "run"}) =>
              /\ proc'[t].pend.state \in {CANCELLED, FAILED, WORKING}
              /\ proc[t].gpos = "g3" => proc'[t].pend.state = CANCELLED
              /\ proc'[t].pend.state = WORKING => proc[t].gpos = "run"
         /\ proc'[t].pend.state = CANCELLED =>
              /\ isCancelled
              /\ proc'[t].gpos = "end"
              /\ PipelineOutcomes(proc'[t].gpos, proc'[t].prog, Idea(proc'[t].task),
                                  isCancelled) = {}
              /\ \A i \in 1..Len(proc[t].ylog) : proc[t].ylog[i].state # CANCELLED]_vars

\* A pass ended with CANCELLED after the audio generation had been announced.
C18_CancelledAfterAudioStarted ==
  \E t \in created :
    /\ proc[t].pc = "done"
    /\ Len(proc[t].ylog) >= 4
    /\ Last(proc[t].ylog) = Status(CANCELLED, TxtCancelled)
    /\ proc[t].ylog[3] = Status(WORKING, TxtAudio)

\* C19: a tasks/send or tasks/sendSubscribe request whose message has no
\* non-empty text part creates no task: every task these requests store and
\* enqueue carries a non-empty text prompt.
C19_NoTaskWithoutPrompt ==
  [][\A t \in Tasks :
       (t \notin created /\ t \in created') => ValidateTaskOk(store'[t].message)]_vars

NewlyCreated(t) == t \notin created /\ t \in created'

Enqueued(t) == t \in processing' \/ t \in Range(queue')

PromptlessMessages == {MsgBlank, MsgData}

StreamEnded(c) == resp[c] # "ended" /\ resp'[c] = "ended"

\* C21: when tasks/sendSubscribe rejects the request of a streaming client,
\* the client's response stream has been written an error event carrying the
\* error code and message when the stream is ended.
C21_RejectedStreamGetsError ==
  [][\A c \in Channels :
       StreamEnded(c) =>
         \E i \in 1..Len(sseLog'[c]) :
           /\ sseLog'[c][i].type = "error"
           /\ sseLog'[c][i].code \in ErrorCodes
           /\ sseLog'[c][i].msg = ErrorMessage(sseLog'[c][i].code)]_vars

\* sendTaskSubscribe for t gets past its notification-mode switch in this step.
ModeDecided(t) == subReq[t] # "none" /\ subReq'[t] = "none"

\* C22: when notification.mode is webhook, sendTaskSubscribe registers the
\* webhook, answers with the task id and registers no stream channel for the
\* task; when the mode is sse or absent, it registers the requesting channel
\* as a stream subscriber, leaves it open and registers no webhook.
C22_ModeSelectsOneSurface ==
  [][\A t \in Tasks :
       ModeDecided(t) =>
         /\ subReq[t] \in {"webhook", "webhook_nourl"} =>
              /\ t \in webhooks'
              /\ resp'[t] = "json"
              /\ t \notin connKeys'
         /\ subReq[t] = "sse" =>
              /\ t \in connKeys' /\ t \in connections'[t]
              /\ resp'[t] = "stream"
              /\ t \notin webhooks']_vars

\* The channel has been written a status event of a terminal state.
SawTerminalEvent(c) ==
  \E i \in 1..Len(sseLog[c]) : sseLog[c][i].type = "status_update" /\ sseLog[c][i].final

\* C23: once a terminal status event has been sent for a task, no channel that
\* was sent it remains registered for the task in the subscription map.
C23_TerminalEventUnsubscribes ==
  \A t \in Tasks : \A c \in Registered(t) : ~SawTerminalEvent(c)

\* C24: the subscription map never holds an empty channel set: every task id
\* with an entry has at least one registered channel, and a task id without
\* an entry has none, whatever subscribe, close and failed-write steps were
\* taken.
C24_NoEmptyChannelSet ==
  \A t \in Tasks :
    /\ t \in connKeys => connections[t] # {}
    /\ t \notin connKeys => connections[t] = {}

\* Both channels were subscribed; one left on a client disconnect, the other
\* on a write that threw, and the map is empty again.
C24_LastChannelsLeft ==
  /\ connKeys = {}
  /\ \E c \in Channels, d \in Channels :
       /\ resp[c] = "closed" /\ sseLog[c] # <<>>
       /\ resp[d] = "broken" /\ sseLog[d] # <<>>

TerminalStatusEvent(e) ==
  e.type = "status_update" /\ e.state \in {COMPLETED, FAILED, CANCELLED}

\* C25: on every stream channel a completion marker comes immediately after a
\* status event of state COMPLETED, FAILED or CANCELLED and repeats its status,
\* and every such status event is immediately followed by a completion
\* marker; so no status event of another state, no artifact event and no error
\* event is followed by one.
C25_MarkerIffTerminalStatus ==
  \A c \in Channels : \A i \in 1..Len(sseLog[c]) :
    /\ sseLog[c][i].type = "completion" =>
         /\ i > 1
         /\ TerminalStatusEvent(sseLog[c][i - 1])
         /\ sseLog[c][i].state = sseLog[c][i - 1].state
         /\ sseLog[c][i].msg = sseLog[c][i - 1].msg
    /\ TerminalStatusEvent(sseLog[c][i]) =>
         /\ i < Len(sseLog[c])
         /\ sseLog[c][i + 1].type = "completion"

\* A channel was sent an INPUT_REQUIRED status followed by an artifact, and
\* later a completion marker.
C25_MarkerAfterOtherEvents ==
  \E c \in Channels : \E i \in 1..Len(sseLog[c]), j \in 1..Len(sseLog[c]) :
    /\ i + 1 < j
    /\ sseLog[c][i].type = "status_update"
    /\ sseLog[c][i].state = INPUT_REQUIRED
    /\ sseLog[c][i + 1].type = "artifact"
    /\ sseLog[c][j].type = "completion"

IsAcknowledgment(e) ==
  /\ e.type = "status_update"
  /\ e.state = SUBMITTED
  /\ e.msg = NoMsg
  /\ ~e.final

\* C26: a registered channel has been sent the synthetic submitted status
\* event with final = false, and that acknowledgment is the first event of
\* every channel that has been sent anything: it precedes every status,
\* artifact, completion and error event.
C26_AcknowledgmentFirst ==
  /\ \A t \in Tasks : \A c \in Registered(t) : sseLog[c] # <<>>
  /\ \A c \in Channels : sseLog[c] # <<>> => IsAcknowledgment(sseLog[c][1])

\* A channel subscribed after the task's first notification was sent the
\* acknowledgment and then a status event, a completion marker and an artifact.
C26_LateSubscriberSawAckThenEvents ==
  \E t \in Tasks : \E c \in Registered(t), d \in Registered(t) :
    /\ Len(sseLog[c]) > Len(sseLog[d])
    /\ Len(sseLog[d]) >= 4
    /\ sseLog[d][3].type = "completion"
    /\ sseLog[d][4].type = "artifact"

\* notifyTaskUpdate for t runs in this step: a channel of t is sent a status
\* event.
NotifiedTask(t) ==
  /\ nNotify' # nNotify
  /\ \E c \in Registered(t) :
       /\ Gained(sseLog[c], sseLog'[c]) # <<>>
       /\ Gained(sseLog[c], sseLog'[c])[1].type = "status_update"

ArtifactsGained(c) ==
  SelectSeq(Gained(sseLog[c], sseLog'[c]), LAMBDA e : e.type = "artifact")

WriteFails(t) ==
  /\ store'[t] # store[t]
  /\ \E b \in Registered(t) : resp[b] = "broken"

\* C28: when a write to a stream channel of a task throws during the dispatch
\* of a Store update, the Store holds the record the update wrote, the
\* processor goes on with the task, the failing channel is unsubscribed and is
\* sent nothing, and every other channel of the task and its webhook target
\* are sent the event.
C28_FailedWriteIsContained ==
  [][\A t \in created :
       WriteFails(t) =>
         /\ RelayStep(t)
         /\ store'[t] = UpdatedTask(proc[t].snap, proc[t].pend.state, proc[t].pend.msg,
                                    proc[t].pend.arts)
         /\ proc'[t].pc \in {"gen", "done", "retry"}
         /\ \A c \in Registered(t) :
              IF resp[c] = "broken"
                THEN c \notin connections'[t] /\ sseLog'[c] = sseLog[c]
                ELSE /\ c \in connections'[t] /\ t \in connKeys'
                     /\ Len(sseLog'[c]) > Len(sseLog[c])
                     /\ Carries(Gained(sseLog[c], sseLog'[c])[1], store'[t])
         /\ Hooked(t) =>
              /\ Len(whLog'[t]) = Len(whLog[t]) + 1
              /\ Carries(Last(whLog'[t]), store'[t])]_vars

\* One channel of a task broke and was unsubscribed after the first status
\* event; the other channel of the task went on to the completion marker of
\* the COMPLETED task.
C28_OtherChannelSawCompletion ==
  \E t \in created : \E b \in Channels, c \in Registered(t) :
    /\ resp[b] = "broken"
    /\ b \notin Registered(t)
    /\ Len(sseLog[b]) >= 2
    /\ Len(sseLog[c]) > Len(sseLog[b])
    /\ store[t].state = COMPLETED
    /\ HasCompletion(sseLog[c])
    /\ ~HasCompletion(sseLog[b])

\* C29 (Scenario A): a task created with an empty or whitespace-only prompt
\* gets one update and no other: INPUT_REQUIRED with the message asking for a
\* prompt; no WORKING or FAILED update is recorded for it and the pipeline
\* does not get to the generation backends.
C29_ScenarioA ==
  \A t \in created :
    (store[t].message = MsgBlank /\ nCancels = 0) =>
      /\ store[t].state \in {SUBMITTED, INPUT_REQUIRED}
      /\ IsPrefix(store[t].history, <<Status(INPUT_REQUIRED, TxtNoPrompt)>>)
      /\ proc[t].gpos \in {"start", "end"}
      /\ proc[t].pc = "done" =>
           store[t].history = <<Status(INPUT_REQUIRED, TxtNoPrompt)>>

AsksForDetail == Status(INPUT_REQUIRED, TxtTooShort)

\* C30 (Scenario B): for a task whose prompt has 1 to 9 characters after
\* trimming, the pipeline yields one update and no other, INPUT_REQUIRED with
\* the message asking for a more detailed description, and ends without
\* reaching metadata or audio generation; when the processing of the task has
\* ended (and nobody cancelled it) its Store state is INPUT_REQUIRED.
C30_ScenarioB ==
  \A t \in created :
    store[t].message = MsgShort =>
      /\ IsPrefix(proc[t].ylog, <<AsksForDetail>>)
      /\ proc[t].gpos \in {"start", "end"}
      /\ (proc[t].pc = "done" /\ nCancels = 0) =>
           /\ proc[t].ylog = <<AsksForDetail>>
           /\ StatusOf(store[t]) = AsksForDetail
           /\ Last(store[t].history) = AsksForDetail

\* The processing of a task with a short prompt has ended and its stream
\* subscriber was sent the INPUT_REQUIRED status.
C30_ShortPromptEnded ==
  \E t \in created :
    /\ store[t].message = MsgShort
    /\ proc[t].pc = "done"
    /\ store[t].state = INPUT_REQUIRED
    /\ Streaming(t)
    /\ Last(sseLog[t]).state = INPUT_REQUIRED
    /\ Last(sseLog[t]).msg = TxtTooShort

\* The processor relays a failure of t in this step: the FAILED update the
\* pipeline yielded, or the FAILED update of processTask's catch block.
RelaysFailure(t) == RelayStep(t) /\ proc[t].pend.state = FAILED

\* C31: a failure raised while a task is processed is recorded as data: when
\* the processor has relayed it, the Store state of the task is FAILED and the
\* status message holds the error text; the failure stays inside the queue,
\* which retries the pass or gives the task up, and reaches no request handler.
C31_FailureIsData ==
  [][\A t \in created :
       RelaysFailure(t) =>
         /\ store'[t].state = FAILED
         /\ store'[t].msg = proc[t].pend.msg
         /\ store'[t].msg \in {ValidateTaskError, TxtMetaFailed, TxtGenFailed}
         /\ proc'[t].pc \in {"retry", "done"}
         /\ UNCHANGED <<created, resp, subReq, cancelReq, cancelRet>>]_vars

\* C32: artifacts are populated only on success: a task whose Store record
\* has artifacts is COMPLETED, so a task that is FAILED, CANCELLED or
\* INPUT_REQUIRED has none.
C32_ArtifactsOnlyOnSuccess ==
  \A t \in created : store[t].artifacts # <<>> => store[t].state = COMPLETED

\* The queue is through with t: its last pass ended, or it was dropped from
\* the FIFO by a cancel.
QueueDoneWith(t) == finished[t] # "no" /\ t \notin processing /\ ~Queued(t)

\* C33: a created task gets at most one processing pass apart from the
\* queue's retries: once the queue is through with it, enqueuing it again,
\* as tasks/sendSubscribe does after the stream subscription, starts nothing.
C33_OnePassPerTask ==
  [][\A t \in created :
       QueueDoneWith(t) =>
         /\ finished'[t] = finished[t]
         /\ t \notin processing'
         /\ proc'[t] = proc[t]]_vars

\* processTask relays a COMPLETED or FAILED update of the pipeline: the Store
\* read of updateTaskStatus has resolved and its write is next.
RelaysTerminalYield(t) ==
  /\ proc[t].pc = "uts"
  /\ proc[t].ctx = "loop"
  /\ proc[t].pend.state \in {COMPLETED, FAILED}
  /\ proc'[t] # proc[t]

RecordsChanged == {t \in created : store'[t] # store[t]}

\* C35: a status update changes only the updated task's status, history and
\* artifacts: the request message the record was created with stays in it,
\* and a step that updates one task leaves the records of all others alone.
C35_UpdateFrame ==
  [][/\ \A t \in created : store'[t].message = store[t].message
     /\ Cardinality(RecordsChanged) <= 1]_vars

C35_UpdatedBesideUntouched ==
  \E t, u \in created :
    /\ t # u
    /\ store[t].state = COMPLETED
    /\ store[t].message = MsgLong
    /\ store[u] = NewTask(MsgData)

\* No tasks/cancel request was ever made for t.
NeverCancelled(t) == ~cancelReq[t].active /\ cancelRet[t] = "none"

\* The pipeline positions at which handleTask calls isCancelled().
CheckPoints == {"g2", "g3", "run"}

\* C36: cancellation is scoped to the cancelled task: a task for which no
\* cancel was requested sees isCancelled() = FALSE at each of its check
\* points, is never handed a CANCELLED update and never has CANCELLED stored.
C36_CancelScoped ==
  \A t \in created :
    NeverCancelled(t) =>
      /\ (proc[t].pc = "gen" /\ proc[t].gpos \in CheckPoints) => ~isCancelled
      /\ proc[t].pend.state # CANCELLED
      /\ store[t].state # CANCELLED

\* tasks/sendSubscribe created t and has not yet registered the subscription.
SubscriptionPending(t) == subReq[t] # "none"

\* C37: in tasks/sendSubscribe no Store update of the new task is applied
\* before the client's subscription is registered: while the handler is
\* between createTask and the registration, the task's record stays as
\* created, so the subscriber is sent every update of its task.
C37_NoUpdateBeforeSubscription ==
  [][\A t \in created :
       SubscriptionPending(t) => store'[t] = store[t]]_vars

\* The positions of the completion events in what a stream has been written.
CompletionsAt(log) == {i \in 1..Len(log) : log[i].type = "completion"}

\* C38: a stream channel is written at most one completion event, and no
\* status_update event after it, whatever the pipeline, the retries and the
\* cancel requests do.
C38_OneCompletionThenSilence ==
  \A c \in Channels :
    /\ Cardinality(CompletionsAt(sseLog[c])) <= 1
    /\ \A i \in CompletionsAt(sseLog[c]) :
         \A j \in (i + 1)..Len(sseLog[c]) : sseLog[c][j].type # "status_update"

====
